---- MODULE Spec2Model ----
(***************************************************************************)
(* A model of torchmdnet/models/torchmd_gn.py: the TorchMD_GN constructor, *)
(* reset_parameters and forward, with InteractionBlock and CFConv.         *)
(*                                                                         *)
(* Tensors are sequences indexed from 1.  Hidden features are modelled     *)
(* with one channel and integer values; from the output head on, values    *)
(* are exact rationals <<n, d>> (the mean readout and the centre of mass   *)
(* divide).  A Euclidean norm is represented by its square.                *)
(***************************************************************************)
EXTENDS Integers, Sequences, FiniteSets

VARIABLES
    ctor,     \* the constructor call: its arguments, outcome, sub-modules created
    model,    \* the TorchMD_GN object (NoModel until a constructor returns)
    calls,    \* the forward calls: each call's position, locals and result
    stale,    \* per call: were the parameters written since it returned
    ref       \* the output of the first forward call on the current system

vars == <<ctor, model, calls, stale, ref>>

(***************************************************************************)
(* Bounds of the model.                                                    *)
(***************************************************************************)
MaxAtoms == 3
MaxInteractions == 2
MaxTrain == 2

AtomicNumbers == {0, 1, 2}
MoleculeIds == {0, 1, 2}
FilterValues == {0, 1}

(***************************************************************************)
(* Optional values (Python's None) and small helpers.                      *)
(***************************************************************************)
None == <<>>
Some(x) == <<x>>
IsNone(o) == o = <<>>
Get(o) == o[1]

Max(a, b) == IF a >= b THEN a ELSE b
Abs(a) == IF a >= 0 THEN a ELSE -a

RECURSIVE Gcd(_, _)
Gcd(a, b) == IF b = 0 THEN a ELSE Gcd(b, a % b)

(***************************************************************************)
(* Exact rationals <<n, d>> with d > 0 and gcd(n, d) = 1.                  *)
(***************************************************************************)
Rat(n, d) ==
    LET s == IF d < 0 THEN -1 ELSE 1
        g == Gcd(Abs(n), Abs(d))
    IN  <<(s * n) \div g, (s * d) \div g>>
RInt(n) == <<n, 1>>
RAdd(p, q) == Rat(p[1] * q[2] + q[1] * p[2], p[2] * q[2])
RSub(p, q) == Rat(p[1] * q[2] - q[1] * p[2], p[2] * q[2])
RMul(p, q) == Rat(p[1] * q[1], p[2] * q[2])
\* A division by zero gives <<0, 0>> (not a number).
RDiv(p, q) == IF q[1] = 0 THEN <<0, 0>> ELSE Rat(p[1] * q[2], p[2] * q[1])
RZero == <<0, 1>>

(***************************************************************************)
(* Parameter tensors: how the tensor was last written, and its value (one  *)
(* representative value per initializer; a table is a function of the      *)
(* atomic number).                                                         *)
(***************************************************************************)
T(init, v) == [init |-> init, v |-> v]
Linear(bias) ==
    IF bias THEN [weight |-> T("kaiming_uniform", 1), bias |-> T("uniform", 1)]
            ELSE [weight |-> T("kaiming_uniform", 1)]
xavier_uniform == T("xavier_uniform", 1)
fill_0 == T("zero", 0)
Embedding == T("normal", [z \in AtomicNumbers |-> z + 1])

(***************************************************************************)
(* The registries of torchmdnet.models.utils.                              *)
(***************************************************************************)
rbf_class_mapping == {"gauss", "expnorm"}
act_class_mapping == {"ssp", "silu", "tanh", "sigmoid"}

(***************************************************************************)
(* CFConv.__init__ and CFConv.reset_parameters.                            *)
(***************************************************************************)
CFConv_reset_parameters(c) ==
    [c EXCEPT !.lin1.weight = xavier_uniform,
              !.lin2.weight = xavier_uniform,
              !.lin2.bias = fill_0]

CFConv_init ==
    CFConv_reset_parameters([lin1 |-> Linear(FALSE), lin2 |-> Linear(TRUE)])

(***************************************************************************)
(* InteractionBlock.__init__ and InteractionBlock.reset_parameters.  The   *)
(* filter network mlp is Linear, activation, Linear: mlp0 and mlp2.  The   *)
(* second fill_ writes mlp[0].bias again, as the source does.              *)
(***************************************************************************)
InteractionBlock_reset_parameters(b) ==
    LET b1 == [b  EXCEPT !.mlp0.weight = xavier_uniform]
        b2 == [b1 EXCEPT !.mlp0.bias = fill_0]
        b3 == [b2 EXCEPT !.mlp2.weight = xavier_uniform]
        b4 == [b3 EXCEPT !.mlp0.bias = fill_0]
        b5 == [b4 EXCEPT !.conv = CFConv_reset_parameters(b.conv)]
        b6 == [b5 EXCEPT !.lin.weight = xavier_uniform]
    IN  [b6 EXCEPT !.lin.bias = fill_0]

InteractionBlock_init ==
    InteractionBlock_reset_parameters(
        [mlp0 |-> Linear(TRUE), mlp2 |-> Linear(TRUE),
         conv |-> CFConv_init, lin |-> Linear(TRUE)])

(***************************************************************************)
(* TorchMD_GN.reset_parameters.                                            *)
(***************************************************************************)
reset_parameters(m) ==
    [m EXCEPT !.embedding = Embedding,
              !.interactions =
                  [i \in DOMAIN m.interactions |->
                      InteractionBlock_reset_parameters(m.interactions[i])],
              !.lin1 = [weight |-> xavier_uniform, bias |-> fill_0],
              !.lin2 = [weight |-> xavier_uniform, bias |-> fill_0],
              !.atomref = IF IsNone(m.atomref) THEN None
                          ELSE Some(T("copy", Get(m.initial_atomref)))]

(***************************************************************************)
(* TorchMD_GN.__init__.                                                    *)
(***************************************************************************)
NoModel == [constructed |-> FALSE]

\* The atomic masses of ase.data.atomic_masses, rounded (X, H, He).
atomic_mass == [z \in AtomicNumbers |-> IF z = 2 THEN 4 ELSE 1]

\* The sub-modules the constructor creates, in the order it creates them.
SubModules(a) ==
    <<"embedding", "distance_expansion">>
    \o (IF a.neighbor_embedding THEN <<"neighbor_embedding">> ELSE <<>>)
    \o [i \in 1..Max(0, a.num_interactions) |-> "interaction"]
    \o <<"lin1", "act", "lin2">>
    \o (IF IsNone(a.atomref) THEN <<>> ELSE <<"atomref">>)

\* Whether a sub-module's own constructor accepts the sizes and the cutoff
\* window it is handed.  The constructor of TorchMD_GN passes them on
\* unchecked; a negative size is always refused by the tensor library, and
\* what happens for a zero size or an empty window is left open (lenient).
SizeOK(n, lenient) == n > 0 \/ (n = 0 /\ lenient)
WindowOK(a, lenient) == (a.cutoff_lower >= 0 /\ a.cutoff_upper > a.cutoff_lower) \/ lenient
Accepts(name, a, lenient) ==
    CASE name = "embedding" -> SizeOK(a.hidden_channels, lenient)
      [] name = "distance_expansion" ->
            WindowOK(a, lenient) /\ SizeOK(a.num_rbf, lenient)
      [] name = "neighbor_embedding" ->
            /\ SizeOK(a.hidden_channels, lenient) /\ SizeOK(a.num_rbf, lenient)
            /\ WindowOK(a, lenient)
      [] name = "interaction" ->
            /\ SizeOK(a.hidden_channels, lenient) /\ SizeOK(a.num_rbf, lenient)
            /\ SizeOK(a.num_filters, lenient) /\ WindowOK(a, lenient)
      [] name \in {"lin1", "lin2"} -> SizeOK(a.hidden_channels, lenient)
      [] OTHER -> TRUE

ValidNames(a) ==
    /\ a.readout \in {"add", "sum", "mean"}
    /\ a.rbf_type \in rbf_class_mapping
    /\ a.activation \in act_class_mapping

\* The object as the constructor leaves it when every step succeeds.
NewModel(a) ==
    reset_parameters(
        [constructed |-> TRUE,
         hidden_channels |-> a.hidden_channels,
         num_filters |-> a.num_filters,
         num_interactions |-> a.num_interactions,
         num_rbf |-> a.num_rbf,
         rbf_type |-> a.rbf_type,
         trainable_rbf |-> a.trainable_rbf,
         activation |-> a.activation,
         cutoff_lower |-> a.cutoff_lower,
         cutoff_upper |-> a.cutoff_upper,
         readout |-> IF a.dipole THEN "add" ELSE a.readout,
         dipole |-> a.dipole,
         mean |-> a.mean,
         std |-> a.std,
         derivative |-> a.derivative,
         atom_filter |-> a.atom_filter,
         atomic_mass |-> atomic_mass,
         embedding |-> Embedding,
         distance_expansion |-> T("rbf", 1),
         neighbor_embedding |->
             IF a.neighbor_embedding
             THEN Some([embedding |-> Embedding,
                        distance_proj |-> [weight |-> xavier_uniform, bias |-> fill_0],
                        combine |-> [weight |-> xavier_uniform, bias |-> fill_0]])
             ELSE None,
         interactions |-> [i \in 1..Max(0, a.num_interactions) |-> InteractionBlock_init],
         lin1 |-> Linear(TRUE),
         lin2 |-> Linear(TRUE),
         initial_atomref |-> a.atomref,
         atomref |-> IF IsNone(a.atomref) THEN None ELSE Some(T("copy", Get(a.atomref)))])

\* Variants of the checks: one that forgets the activation, one that also
\* validates the numbers.
TorchMD_GN_init_checks_no_activation(a) ==
    a.readout \in {"add", "sum", "mean"} /\ a.rbf_type \in rbf_class_mapping
TorchMD_GN_init_checks_with_numbers(a) ==
    /\ ValidNames(a)
    /\ a.num_interactions > 0 /\ a.num_filters > 0
    /\ a.cutoff_lower >= 0 /\ a.cutoff_upper > a.cutoff_lower

\* The constructor with the checks it makes: the three assertions first,
\* then the attributes, then the sub-modules one after the other.
TorchMD_GN_init_checks(a) == ValidNames(a)

TorchMD_GN_init(a, lenient) ==
    IF ~TorchMD_GN_init_checks(a)
    THEN [status |-> "AssertionError", created |-> <<>>, model |-> NoModel]
    ELSE LET plan == SubModules(a)
             bad == {i \in DOMAIN plan : ~Accepts(plan[i], a, lenient)}
         IN  IF bad = {}
             THEN [status |-> "constructed", created |-> plan, model |-> NewModel(a)]
             ELSE LET first == CHOOSE i \in bad : \A j \in bad : i <= j
                  IN  [status |-> "SubModuleError",
                       created |-> SubSeq(plan, 1, first - 1),
                       model |-> NoModel]

(***************************************************************************)
(* Training (outside the file): a step writes every parameter.             *)
(***************************************************************************)
TrainLinear(l, k) ==
    IF "bias" \in DOMAIN l
    THEN [weight |-> T("trained", 1 + k), bias |-> T("trained", k)]
    ELSE [weight |-> T("trained", 1 + k)]
TrainTable(base, k) == T("trained", [z \in AtomicNumbers |-> base[z] + k])
TrainBlock(b, k) ==
    [mlp0 |-> TrainLinear(b.mlp0, k), mlp2 |-> TrainLinear(b.mlp2, k),
     conv |-> [lin1 |-> TrainLinear(b.conv.lin1, k), lin2 |-> TrainLinear(b.conv.lin2, k)],
     lin |-> TrainLinear(b.lin, k)]
TrainStep(m, k) ==
    [m EXCEPT !.embedding = TrainTable(Embedding.v, k),
              !.distance_expansion = IF m.trainable_rbf THEN T("trained", 1 + k) ELSE @,
              !.neighbor_embedding =
                  IF IsNone(@) THEN None
                  ELSE Some([embedding |-> TrainTable(Embedding.v, k),
                             distance_proj |-> TrainLinear(Get(@).distance_proj, k),
                             combine |-> TrainLinear(Get(@).combine, k)]),
              !.interactions = [i \in DOMAIN @ |-> TrainBlock(@[i], k)],
              !.lin1 = TrainLinear(@, k),
              !.lin2 = TrainLinear(@, k),
              !.atomref = IF IsNone(@) THEN None
                          ELSE Some(TrainTable(Get(m.initial_atomref), k))]

(***************************************************************************)
(* The collaborators of forward: torch_geometric.nn.radius_graph, and      *)
(* CosineCutoff, the radial basis, the activation and NeighborEmbedding of *)
(* torchmdnet.models.utils.  A distance is held as its square.             *)
(***************************************************************************)
D2(p, q) == (p[1] - q[1]) * (p[1] - q[1]) + (p[2] - q[2]) * (p[2] - q[2])
            + (p[3] - q[3]) * (p[3] - q[3])

\* Ordered pairs <<sender, receiver>> of distinct atoms of one molecule that
\* are closer than r, listed by receiver.
RECURSIVE EdgesFrom(_, _, _, _)
EdgesFrom(k, pos, r, batch) ==
    LET n == Len(pos)
        i == ((k - 1) \div n) + 1
        j == ((k - 1) % n) + 1
    IN  IF k > n * n THEN <<>>
        ELSE (IF i # j /\ batch[i] = batch[j] /\ D2(pos[i], pos[j]) < r * r
              THEN << <<j, i>> >> ELSE <<>>)
             \o EdgesFrom(k + 1, pos, r, batch)
radius_graph(pos, r, batch) == EdgesFrom(1, pos, r, batch)

CosineCutoff(m, d2) ==
    IF d2 < m.cutoff_upper * m.cutoff_upper /\ d2 >= m.cutoff_lower * m.cutoff_lower
    THEN m.cutoff_upper * m.cutoff_upper - d2 ELSE 0

distance_expansion(m, d2) == m.distance_expansion.v + d2

\* The activation the registry hands out: an elementwise nonlinear function.
act(x) == x % 5

lin(l, x) == IF "bias" \in DOMAIN l THEN l.weight.v * x + l.bias.v ELSE l.weight.v * x

(***************************************************************************)
(* MessagePassing.propagate with aggr='add' and CFConv.message: the        *)
(* messages x_j * W of the edges into receiver i are summed, in the order  *)
(* of the edge list; a receiver without an edge gets 0.                    *)
(***************************************************************************)
message(x_j, W) == x_j * W

\* A variant that keeps the message of the last edge into i instead of the sum.
RECURSIVE AggrLast(_, _, _, _, _)
AggrLast(e, i, edge_index, x, W) ==
    IF e > Len(edge_index) THEN 0
    ELSE LET rest == AggrLast(e + 1, i, edge_index, x, W)
         IN  IF rest # 0 THEN rest
             ELSE IF edge_index[e][2] = i THEN message(x[edge_index[e][1]], W[e])
             ELSE 0

RECURSIVE AggrAdd(_, _, _, _, _)
AggrAdd(e, i, edge_index, x, W) ==
    IF e > Len(edge_index) THEN 0
    ELSE (IF edge_index[e][2] = i THEN message(x[edge_index[e][1]], W[e]) ELSE 0)
         + AggrAdd(e + 1, i, edge_index, x, W)

propagate(edge_index, x, W) ==
    [i \in 1..Len(x) |-> AggrAdd(1, i, edge_index, x, W)]

\* CFConv.forward
CFConv_forward(m, b, x, edge_index, edge_weight, edge_attr) ==
    LET C == [e \in 1..Len(edge_weight) |-> CosineCutoff(m, edge_weight[e])]
        W == [e \in 1..Len(edge_attr) |->
                 lin(b.mlp2, act(lin(b.mlp0, edge_attr[e]))) * C[e]]
        x1 == [i \in 1..Len(x) |-> lin(b.conv.lin1, x[i])]
        x2 == propagate(edge_index, x1, W)
    IN  [i \in 1..Len(x) |-> lin(b.conv.lin2, x2[i])]

\* InteractionBlock.forward
InteractionBlock_forward(m, b, x, edge_index, edge_weight, edge_attr) ==
    LET x1 == CFConv_forward(m, b, x, edge_index, edge_weight, edge_attr)
    IN  [i \in 1..Len(x) |-> lin(b.lin, act(x1[i]))]

\* NeighborEmbedding.forward
NeighborEmbedding(m, z, x, edge_index, edge_weight, edge_attr) ==
    LET ne == Get(m.neighbor_embedding)
        W == [e \in 1..Len(edge_attr) |->
                 lin(ne.distance_proj, edge_attr[e]) * CosineCutoff(m, edge_weight[e])]
        xn == propagate(edge_index, [i \in 1..Len(z) |-> ne.embedding.v[z[i]]], W)
    IN  [i \in 1..Len(x) |-> lin(ne.combine, x[i] + xn[i])]

(***************************************************************************)
(* torch_scatter.scatter(src, index, dim=0, reduce): one row per index     *)
(* value 0..max(index), none for an empty index; the rows of src with      *)
(* index g are summed, and for 'mean' divided by their number (at least    *)
(* 1).  Rows are sequences of rationals.                                   *)
(***************************************************************************)
ZeroRow(w) == [c \in 1..w |-> RZero]
RowAdd(r, s) == [c \in 1..Len(r) |-> RAdd(r[c], s[c])]

RECURSIVE SumRows(_, _, _, _, _)
SumRows(i, g, src, index, w) ==
    IF i > Len(src) THEN ZeroRow(w)
    ELSE IF index[i] = g THEN RowAdd(src[i], SumRows(i + 1, g, src, index, w))
         ELSE SumRows(i + 1, g, src, index, w)

Count(g, index) == Cardinality({i \in 1..Len(index) : index[i] = g})

RECURSIVE MaxOf(_)
MaxOf(S) == LET x == CHOOSE y \in S : TRUE
            IN  IF S = {x} THEN x ELSE Max(x, MaxOf(S \ {x}))

\* A variant that sizes the output by the number of distinct index values.
dim_size_distinct(index) == Cardinality({index[i] : i \in 1..Len(index)})

dim_size(index) == IF Len(index) = 0 THEN 0 ELSE MaxOf({index[i] : i \in 1..Len(index)}) + 1

scatter(src, index, w, reduce) ==
    [g1 \in 1..dim_size(index) |->
        LET total == SumRows(1, g1 - 1, src, index, w)
            n == Max(Count(g1 - 1, index), 1)
        IN  IF reduce = "mean"
            THEN [c \in 1..w |-> RDiv(total[c], RInt(n))]
            ELSE total]

\* torch.norm(out, dim=-1, keepdim=True), held as the square of the norm.
norm(row) == [sq |-> RAdd(RAdd(RMul(row[1], row[1]), RMul(row[2], row[2])),
                          RMul(row[3], row[3]))]

\* z[atom_mask]: the entries of a per-atom tensor whose mask entry is true.
RECURSIVE Masked(_, _, _)
Masked(t, atom_mask, i) ==
    IF i > Len(t) THEN <<>>
    ELSE (IF atom_mask[i] THEN <<t[i]>> ELSE <<>>) \o Masked(t, atom_mask, i + 1)

(***************************************************************************)
(* TorchMD_GN.forward, line by line.  A call's record L holds the tensors  *)
(* the caller passed (inp, and whether its pos requires grad), the locals, *)
(* the operations performed so far (ops) and the position tensors in the   *)
(* autograd graph of h and out (graph).  pc names the next statement.      *)
(***************************************************************************)
NoInput == [z |-> <<>>, zdim |-> 1, zdtype |-> "long", pos |-> <<>>, batch |-> None]

Blank(pc, inp) ==
    [pc |-> pc, inp |-> inp, pos_requires_grad |-> FALSE,
     z |-> inp.z, pos |-> inp.pos, batch |-> <<>>, pos_id |-> "pos",
     h |-> <<>>, graph |-> {}, edge_index |-> <<>>, edge_weight |-> <<>>,
     edge_attr |-> <<>>, k |-> 0, out |-> <<>>, dy |-> None,
     error |-> "", ops |-> <<>>]
Idle == Blank("idle", NoInput)
NewCall(inp) == Blank("assert", inp)

Done(L) == L.pc \in {"returned", "raised"}
InFlight(L) == L.pc \notin {"idle", "returned", "raised"}

\* A variant that keeps the atoms at the threshold.
atom_mask_ge(m, z) == [i \in 1..Len(z) |-> z[i] >= m.atom_filter]

atom_mask(m, z) == [i \in 1..Len(z) |-> z[i] > m.atom_filter]

\* The position tensors that edge_weight, and so every filter, is computed from.
EdgeGraph(L) == IF L.pos_requires_grad THEN {"pos"} ELSE {}

\* A variant that marks the positions before it checks z.
forward_assert_after_grad(m, L) ==
    LET G == IF m.derivative
             THEN [L EXCEPT !.pos_requires_grad = TRUE, !.ops = Append(@, "requires_grad_")]
             ELSE L
    IN  IF L.inp.zdim = 1 /\ L.inp.zdtype = "long"
        THEN [L EXCEPT !.pc = "grad",
                       !.batch = IF IsNone(L.inp.batch) THEN [i \in 1..Len(L.z) |-> 0]
                                 ELSE Get(L.inp.batch)]
        ELSE [G EXCEPT !.pc = "raised", !.error = "AssertionError"]

forward_assert(m, L) ==
    IF L.inp.zdim = 1 /\ L.inp.zdtype = "long"
    THEN [L EXCEPT !.pc = "grad",
                   !.batch = IF IsNone(L.inp.batch) THEN [i \in 1..Len(L.z) |-> 0]
                             ELSE Get(L.inp.batch)]
    ELSE [L EXCEPT !.pc = "raised", !.error = "AssertionError"]

forward_grad(m, L) ==
    IF m.derivative
    THEN [L EXCEPT !.pc = "embed", !.pos_requires_grad = TRUE,
                   !.ops = Append(@, "requires_grad_")]
    ELSE [L EXCEPT !.pc = "embed"]

forward_embed(m, L) ==
    IF \E i \in 1..Len(L.z) : L.z[i] \notin DOMAIN m.embedding.v
    THEN [L EXCEPT !.pc = "raised", !.error = "IndexError"]
    ELSE [L EXCEPT !.pc = "graph",
                   !.h = [i \in 1..Len(L.z) |-> m.embedding.v[L.z[i]]],
                   !.ops = Append(@, "embedding")]

forward_graph(m, L) ==
    LET edge_index == radius_graph(L.pos, m.cutoff_upper, L.batch)
        edge_weight == [e \in 1..Len(edge_index) |->
                           D2(L.pos[edge_index[e][1]], L.pos[edge_index[e][2]])]
    IN  [L EXCEPT !.pc = "nbr",
                  !.edge_index = edge_index,
                  !.edge_weight = edge_weight,
                  !.edge_attr = [e \in 1..Len(edge_index) |->
                                    distance_expansion(m, edge_weight[e])],
                  !.ops = Append(@, "radius_graph")]

forward_nbr(m, L) ==
    IF IsNone(m.neighbor_embedding)
    THEN [L EXCEPT !.pc = "interact", !.k = 1]
    ELSE [L EXCEPT !.pc = "interact", !.k = 1,
                   !.h = NeighborEmbedding(m, L.z, L.h, L.edge_index,
                                           L.edge_weight, L.edge_attr),
                   !.graph = @ \cup EdgeGraph(L),
                   !.ops = Append(@, "neighbor_embedding")]

forward_interact(m, L) ==
    IF L.k > Len(m.interactions)
    THEN [L EXCEPT !.pc = "filter"]
    ELSE LET x == InteractionBlock_forward(m, m.interactions[L.k], L.h,
                                           L.edge_index, L.edge_weight, L.edge_attr)
         IN  [L EXCEPT !.k = @ + 1,
                       !.h = [i \in 1..Len(L.h) |-> L.h[i] + x[i]],
                       !.graph = @ \cup EdgeGraph(L),
                       !.ops = Append(@, "interaction")]

\* h, z, pos and batch are indexed with one mask; pos[atom_mask] is a new
\* tensor computed from pos.
forward_filter(m, L) ==
    LET mask == atom_mask(m, L.z)
    IN  [L EXCEPT !.pc = "head",
                  !.h = Masked(L.h, mask, 1),
                  !.z = Masked(L.z, mask, 1),
                  !.pos = Masked(L.pos, mask, 1),
                  !.pos_id = "pos[atom_mask]",
                  !.batch = Masked(L.batch, mask, 1)]

forward_head(m, L) ==
    [L EXCEPT !.pc = "dipole",
              !.h = [i \in 1..Len(L.h) |->
                        <<RInt(lin(m.lin2, act(lin(m.lin1, L.h[i]))))>>]]

forward_dipole(m, L) ==
    IF ~m.dipole THEN [L EXCEPT !.pc = "rescale"]
    ELSE LET mass == [i \in 1..Len(L.z) |-> m.atomic_mass[L.z[i]]]
             mp == scatter([i \in 1..Len(L.z) |->
                               [c \in 1..3 |-> RInt(mass[i] * L.pos[i][c])]],
                           L.batch, 3, "sum")
             ms == scatter([i \in 1..Len(L.z) |-> <<RInt(mass[i])>>], L.batch, 1, "sum")
             c == [g \in 1..Len(mp) |-> [x \in 1..3 |-> RDiv(mp[g][x], ms[g][1])]]
         IN  [L EXCEPT !.pc = "rescale",
                       !.h = [i \in 1..Len(L.h) |->
                                 [x \in 1..3 |->
                                     RMul(L.h[i][1],
                                          RSub(RInt(L.pos[i][x]), c[L.batch[i] + 1][x]))]],
                       !.graph = @ \cup (IF L.pos_requires_grad THEN {L.pos_id} ELSE {})]

\* A variant that rescales in dipole mode too.
forward_rescale_any_mode(m, L) ==
    IF ~IsNone(m.mean) /\ ~IsNone(m.std)
    THEN [L EXCEPT !.pc = "atomref",
                   !.h = [i \in 1..Len(L.h) |->
                             [x \in 1..Len(L.h[i]) |->
                                 RAdd(RMul(L.h[i][x], RInt(Get(m.std))), RInt(Get(m.mean)))]]]
    ELSE [L EXCEPT !.pc = "atomref"]

forward_rescale(m, L) ==
    IF ~m.dipole /\ ~IsNone(m.mean) /\ ~IsNone(m.std)
    THEN [L EXCEPT !.pc = "atomref",
                   !.h = [i \in 1..Len(L.h) |->
                             <<RAdd(RMul(L.h[i][1], RInt(Get(m.std))), RInt(Get(m.mean)))>>]]
    ELSE [L EXCEPT !.pc = "atomref"]

forward_atomref(m, L) ==
    IF ~m.dipole /\ ~IsNone(m.atomref)
    THEN [L EXCEPT !.pc = "readout",
                   !.h = [i \in 1..Len(L.h) |->
                             <<RAdd(L.h[i][1], RInt(Get(m.atomref).v[L.z[i]]))>>]]
    ELSE [L EXCEPT !.pc = "readout"]

forward_readout(m, L) ==
    [L EXCEPT !.pc = "norm",
              !.out = scatter(L.h, L.batch, IF m.dipole THEN 3 ELSE 1, m.readout)]

forward_norm(m, L) ==
    IF m.dipole
    THEN [L EXCEPT !.pc = "deriv", !.out = [g \in 1..Len(L.out) |-> <<norm(L.out[g])>>]]
    ELSE [L EXCEPT !.pc = "deriv"]

\* torch.autograd.grad(out, pos, ...): pos is the local pos, the filtered
\* tensor; it must be part of the graph out was computed from.  The result
\* has the shape of pos and holds the derivative along the paths through
\* that tensor only (omitted: the position tensors out also depends on).
forward_deriv(m, L) ==
    IF ~m.derivative THEN [L EXCEPT !.pc = "returned"]
    ELSE IF L.pos_id \notin L.graph
    THEN [L EXCEPT !.pc = "raised", !.error = "RuntimeError"]
    ELSE [L EXCEPT !.pc = "returned",
                   !.dy = Some([rows |-> Len(L.pos), wrt |-> L.pos_id,
                                omitted |-> L.graph \ {L.pos_id}])]

Step(m, L) ==
    CASE L.pc = "assert" -> forward_assert(m, L)
      [] L.pc = "grad" -> forward_grad(m, L)
      [] L.pc = "embed" -> forward_embed(m, L)
      [] L.pc = "graph" -> forward_graph(m, L)
      [] L.pc = "nbr" -> forward_nbr(m, L)
      [] L.pc = "interact" -> forward_interact(m, L)
      [] L.pc = "filter" -> forward_filter(m, L)
      [] L.pc = "head" -> forward_head(m, L)
      [] L.pc = "dipole" -> forward_dipole(m, L)
      [] L.pc = "rescale" -> forward_rescale(m, L)
      [] L.pc = "atomref" -> forward_atomref(m, L)
      [] L.pc = "readout" -> forward_readout(m, L)
      [] L.pc = "norm" -> forward_norm(m, L)
      [] L.pc = "deriv" -> forward_deriv(m, L)
      [] OTHER -> L

\* The whole of forward on one call.
RECURSIVE forward(_, _)
forward(m, L) == IF Done(L) \/ L.pc = "idle" THEN L ELSE forward(m, Step(m, L))

(***************************************************************************)
(* Constructor arguments and inputs the specifications draw from.          *)
(***************************************************************************)
Calls == {1, 2}

\* The defaults of __init__.
DefaultArgs ==
    [hidden_channels |-> 128, num_filters |-> 128, num_interactions |-> 6,
     num_rbf |-> 50, rbf_type |-> "expnorm", trainable_rbf |-> TRUE,
     activation |-> "silu", neighbor_embedding |-> TRUE,
     cutoff_lower |-> 0, cutoff_upper |-> 5, readout |-> "add", dipole |-> FALSE,
     mean |-> None, std |-> None, atomref |-> None, derivative |-> FALSE,
     atom_filter |-> 0]

AtomrefGiven == [z \in AtomicNumbers |-> 3 * z]

\* Arguments of the constructor, valid and invalid.
CtorArgs ==
    {[DefaultArgs EXCEPT !.hidden_channels = hc, !.num_filters = nf,
                         !.num_interactions = ni, !.num_rbf = nr,
                         !.rbf_type = rt, !.activation = ac, !.readout = ro,
                         !.cutoff_lower = w[1], !.cutoff_upper = w[2],
                         !.dipole = dp, !.atomref = ar] :
        hc \in {-1, 0, 2}, nf \in {0, 2}, ni \in -1..MaxInteractions, nr \in {0, 2},
        rt \in {"expnorm", "spline"}, ac \in {"silu", "relu6"},
        ro \in {"add", "sum", "mean", "max"},
        w \in {<<0, 2>>, <<0, 0>>, <<2, 1>>, <<-1, 2>>},
        dp \in BOOLEAN, ar \in {None, Some(AtomrefGiven)}}

\* n atoms on a line, one unit apart.
Line(n) == [i \in 1..n |-> <<i - 1, 0, 0>>]

Input(z, pos, batch) == [z |-> z, zdim |-> 1, zdtype |-> "long", pos |-> pos, batch |-> batch]

Batches(n) == {None} \cup {Some(b) : b \in [1..n -> MoleculeIds]}

(***************************************************************************)
(* The operations.                                                         *)
(***************************************************************************)
\* model = TorchMD_GN(**a)
Construct(A) ==
    /\ ctor.status = "none"
    /\ \E a \in A, lenient \in BOOLEAN :
          LET r == TorchMD_GN_init(a, lenient)
          IN  /\ ctor' = [status |-> r.status, created |-> r.created,
                          args |-> Some(a), last |-> "__init__"]
              /\ model' = r.model
    /\ UNCHANGED <<calls, stale, ref>>

\* Parameter updates are synchronized with forward by the caller (the file
\* has no lock of its own): a writer runs while no forward call is in flight.
\* A result obtained before the write is stale from then on.
Quiescent == \A c \in Calls : ~InFlight(calls[c])

\* A training step: the optimizer writes the parameters.
Train ==
    /\ model.constructed
    /\ Quiescent
    /\ \E k \in 1..MaxTrain : model' = TrainStep(model, k)
    /\ ctor' = [ctor EXCEPT !.last = "train"]
    /\ stale' = [c \in Calls |-> stale[c] \/ Done(calls[c])]
    /\ UNCHANGED <<calls, ref>>

\* model.reset_parameters()
ResetParameters ==
    /\ model.constructed
    /\ Quiescent
    /\ model' = reset_parameters(model)
    /\ ctor' = [ctor EXCEPT !.last = "reset_parameters"]
    /\ stale' = [c \in Calls |-> stale[c] \/ Done(calls[c])]
    /\ UNCHANGED <<calls, ref>>

\* The caller prepares the tensors of a call: model(z, pos, batch).
Call(c, I) ==
    /\ model.constructed
    /\ calls[c].pc = "idle"
    /\ \E inp \in I : calls' = [calls EXCEPT ![c] = NewCall(inp)]
    /\ stale' = [stale EXCEPT ![c] = FALSE]
    /\ ref' = None
    /\ UNCHANGED <<ctor, model>>

\* The whole of forward, from its first statement to its return or raise.
Forward(c) ==
    /\ calls[c].pc = "assert"
    /\ calls' = [calls EXCEPT ![c] = forward(model, @)]
    /\ ref' = IF IsNone(ref) THEN Some(calls'[c].out) ELSE ref
    /\ UNCHANGED <<ctor, model, stale>>

\* A variant of a statement of forward that keeps a running mean on the model.
ForwardStep_running_mean(c) ==
    /\ InFlight(calls[c])
    /\ calls' = [calls EXCEPT ![c] = Step(model, @)]
    /\ model' = IF calls[c].pc = "readout" THEN [model EXCEPT !.mean = Some(1)] ELSE model
    /\ UNCHANGED <<ctor, stale, ref>>

\* One statement of forward.
ForwardStep(c) ==
    /\ InFlight(calls[c])
    /\ calls' = [calls EXCEPT ![c] = Step(model, @)]
    /\ UNCHANGED <<ctor, model, stale, ref>>

\* The caller drops the result.
Discard(c) ==
    /\ Done(calls[c])
    /\ calls' = [calls EXCEPT ![c] = Idle]
    /\ stale' = [stale EXCEPT ![c] = FALSE]
    /\ ref' = None
    /\ UNCHANGED <<ctor, model>>

\* The caller relabels the atoms of the system by a permutation and calls again.
Perms(n) == {p \in [1..n -> 1..n] : \A i, j \in 1..n : p[i] = p[j] => i = j}
Permute(inp, p) ==
    [inp EXCEPT !.z = [i \in 1..Len(inp.z) |-> inp.z[p[i]]],
                !.pos = [i \in 1..Len(inp.z) |-> inp.pos[p[i]]],
                !.batch = IF IsNone(inp.batch) THEN None
                          ELSE Some([i \in 1..Len(inp.z) |-> Get(inp.batch)[p[i]]])]
Relabel(c) ==
    /\ calls[c].pc = "returned"
    /\ \E p \in Perms(Len(calls[c].inp.z)) :
          calls' = [calls EXCEPT ![c] = NewCall(Permute(calls[c].inp, p))]
    /\ UNCHANGED <<ctor, model, stale, ref>>

(***************************************************************************)
(* Specifications.                                                         *)
(***************************************************************************)
NoCalls == /\ calls = [c \in Calls |-> Idle]
           /\ stale = [c \in Calls |-> FALSE]
           /\ ref = None

\* A constructed model, its arguments drawn from A.
Constructed(A) ==
    \E a \in A :
        /\ ctor = [status |-> "constructed", created |-> SubModules(a),
                   args |-> Some(a), last |-> "__init__"]
        /\ model = NewModel(a)

\* Construction, training and re-initialization.
InitCtor ==
    /\ ctor = [status |-> "none", created |-> <<>>, args |-> None, last |-> ""]
    /\ model = NoModel
    /\ NoCalls
NextCtor == Construct(CtorArgs) \/ Train \/ ResetParameters
SpecCtor == InitCtor /\ [][NextCtor]_vars

\* Forward calls, one at a time, on systems of up to MaxAtoms atoms on a line.
FwdBase == [DefaultArgs EXCEPT !.cutoff_upper = 2, !.num_interactions = 1]
ArgsFwd ==
    {[FwdBase EXCEPT !.dipole = dp, !.readout = ro, !.derivative = dv,
                     !.atom_filter = af] :
        dp \in BOOLEAN, ro \in {"add", "mean"}, dv \in BOOLEAN, af \in FilterValues}
InputsFwd ==
    UNION {{Input(z, Line(n), b) : z \in [1..n -> AtomicNumbers], b \in Batches(n)}
           \cup {[Input(z, Line(n), None) EXCEPT !.zdim = 2] : z \in [1..n -> AtomicNumbers]}
           \cup {[Input(z, Line(n), None) EXCEPT !.zdtype = "float"] :
                    z \in [1..n -> AtomicNumbers]}
           : n \in 1..MaxAtoms}
InitFwd == Constructed(ArgsFwd) /\ NoCalls
NextFwd == Call(1, InputsFwd) \/ Forward(1) \/ Discard(1)
SpecFwd == InitFwd /\ [][NextFwd]_vars

\* Forward calls on systems of atoms at three points, the first atom at the
\* origin, in every output mode.
Points == {<<0, 0, 0>>, <<1, 0, 0>>, <<0, 2, 1>>}
ArgsDipole ==
    {[FwdBase EXCEPT !.dipole = dp, !.readout = ro, !.mean = ms[1], !.std = ms[2],
                     !.atomref = ar] :
        dp \in BOOLEAN, ro \in {"sum", "mean"},
        ms \in {<<None, None>>, <<Some(1), None>>, <<Some(1), Some(2)>>},
        ar \in {None, Some(AtomrefGiven)}}
InputsDipole ==
    UNION {{Input(z, pos, b) : z \in [1..n -> AtomicNumbers \ {0}],
                               pos \in {q \in [1..n -> Points] : q[1] = <<0, 0, 0>>},
                               b \in {None, Some([i \in 1..n |-> i % 2])}}
           : n \in 1..MaxAtoms}
InitDipole == Constructed(ArgsDipole) /\ NoCalls
NextDipole == Call(1, InputsDipole) \/ Forward(1) \/ Discard(1)
SpecDipole == InitDipole /\ [][NextDipole]_vars

\* A forward call, then the same system with its atoms relabelled, again and again.
ArgsPerm ==
    {[FwdBase EXCEPT !.dipole = m[1], !.readout = m[2], !.atom_filter = af,
                     !.num_interactions = 2] :
        m \in {<<TRUE, "add">>, <<FALSE, "add">>, <<FALSE, "mean">>}, af \in FilterValues}
InputsPerm ==
    UNION {{Input(z, Line(n), b) : z \in [1..n -> AtomicNumbers \ {0}],
                                   b \in {None} \cup {Some(f) : f \in [1..n -> {0, 1}]}}
           : n \in 1..MaxAtoms}
InitPerm == Constructed(ArgsPerm) /\ NoCalls
NextPerm == Call(1, InputsPerm) \/ Forward(1) \/ Relabel(1) \/ Discard(1)
SpecPerm == InitPerm /\ [][NextPerm]_vars

\* Two callers running forward statement by statement on one model, with
\* training steps and re-initializations in between.
ArgsConc ==
    {[FwdBase EXCEPT !.dipole = dp, !.derivative = dv, !.atomref = Some(AtomrefGiven)] :
        dp \in BOOLEAN, dv \in BOOLEAN}
InputsConc ==
    {Input(<<1, 2>>, Line(2), None),
     Input(<<2, 0, 1>>, Line(3), Some(<<0, 1, 1>>)),
     [Input(<<1>>, Line(1), None) EXCEPT !.zdtype = "float"]}
InitConc == Constructed(ArgsConc) /\ NoCalls
NextConc ==
    \/ \E c \in Calls : Call(c, InputsConc) \/ ForwardStep(c) \/ Discard(c)
    \/ Train
    \/ ResetParameters
SpecConc == InitConc /\ [][NextConc]_vars

(***************************************************************************)
(* Properties of the constructor and of reset_parameters (SpecCtor).       *)
(***************************************************************************)
NamesValid(a) ==
    /\ a.readout = "add" \/ a.readout = "sum" \/ a.readout = "mean"
    /\ a.rbf_type \in rbf_class_mapping
    /\ a.activation \in act_class_mapping

NumbersValid(a) ==
    /\ a.cutoff_lower >= 0 /\ a.cutoff_upper > a.cutoff_lower
    /\ a.hidden_channels > 0 /\ a.num_filters > 0
    /\ a.num_interactions > 0 /\ a.num_rbf > 0

\* C1: a constructor call with an invalid readout, rbf_type or activation
\* ends in the assertion error with no sub-module created and no object
\* handed out; a call with three valid names never ends in that error.
C1_NamesCheckedFirst ==
    ~IsNone(ctor.args) =>
        LET a == Get(ctor.args)
        IN  /\ ~NamesValid(a) => /\ ctor.status = "AssertionError"
                                 /\ ctor.created = <<>>
                                 /\ ~model.constructed
            /\ NamesValid(a) => ctor.status # "AssertionError"

C1_Witness ==
    /\ ctor.status = "AssertionError"
    /\ NumbersValid(Get(ctor.args))
    /\ Get(ctor.args).readout = "max"

C10_BlocksReinitialized ==
    (model.constructed /\ ctor.last \in {"__init__", "reset_parameters"}) =>
        /\ \A i \in DOMAIN model.interactions :
              LET b == model.interactions[i]
              IN  /\ b.mlp0.weight.init = "xavier_uniform"
                  /\ b.mlp2.weight.init = "xavier_uniform"
                  /\ b.lin.weight.init = "xavier_uniform"
                  /\ b.mlp0.bias.v = 0
                  /\ b.mlp2.bias.v = 0
                  /\ b.lin.bias.v = 0
                  /\ b.conv.lin2.bias.v = 0
        /\ ~IsNone(model.atomref) =>
              Get(model.atomref).v = Get(Get(ctor.args).atomref)

(***************************************************************************)
(* Properties of single forward calls (SpecFwd), stated from the caller's  *)
(* tensors calls[c].inp and the attributes of the model.                   *)
(***************************************************************************)
ValidInput(inp) == inp.zdim = 1 /\ inp.zdtype = "long"
BatchOf(inp) == IF IsNone(inp.batch) THEN [i \in 1..Len(inp.z) |-> 0] ELSE Get(inp.batch)

\* The atoms the filter keeps, their molecule ids, and an atom's place among them.
Kept(inp) == {i \in 1..Len(inp.z) : inp.z[i] > model.atom_filter}
KeptIds(inp) == {BatchOf(inp)[i] : i \in Kept(inp)}
Rank(inp, i) == Cardinality({j \in Kept(inp) : j <= i})

\* The call got past the readout (it returned, or raised in autograd.grad).
PastReadout(L) == L.pc = "returned" \/ (L.pc = "raised" /\ L.error = "RuntimeError")

\* C3: with derivative enabled, a call on valid input returns, with forces
\* taken with respect to a tensor the output was computed from, one row per
\* remaining atom, and leaving out no dependence of the output on positions.
C3_DerivativeReturnsForces ==
    \A c \in Calls :
        (Done(calls[c]) /\ model.derivative /\ ValidInput(calls[c].inp)) =>
            /\ calls[c].pc = "returned"
            /\ ~IsNone(calls[c].dy)
            /\ Get(calls[c].dy).wrt \in calls[c].graph
            /\ Get(calls[c].dy).rows = Cardinality(Kept(calls[c].inp))
            /\ Get(calls[c].dy).omitted = {}

\* C4 as stated, for the calls in which every atom passes the atom filter:
\* the output of a returned call has as many rows as there are distinct
\* molecule ids in the input, one when molecule_id is omitted.
C4_LengthIsDistinctIds ==
    \A c \in Calls :
        (calls[c].pc = "returned" /\ Kept(calls[c].inp) = 1..Len(calls[c].inp.z)) =>
            Len(calls[c].out) =
                IF IsNone(calls[c].inp.batch) THEN 1
                ELSE Cardinality({BatchOf(calls[c].inp)[i] : i \in 1..Len(calls[c].inp.z)})

\* C4 as amended: the output has one row per id from 0 to the largest
\* molecule id among the atoms that pass the atom filter, none when no atom
\* passes; that is the number of distinct ids of the remaining atoms
\* exactly when those ids are 0..n-1.
C4_LengthIsMaxIdPlusOne ==
    \A c \in Calls :
        calls[c].pc = "returned" =>
            LET ids == KeptIds(calls[c].inp)
                n == Len(calls[c].out)
            IN  /\ ids = {} => n = 0
                /\ ids # {} => /\ \A g \in ids : g + 1 <= n
                               /\ n - 1 \in ids
                /\ (n = Cardinality(ids)) <=> (ids = 0..(Cardinality(ids) - 1))

C4_Witness ==
    /\ calls[1].pc = "returned"
    /\ Cardinality(Kept(calls[1].inp)) = 2
    /\ KeptIds(calls[1].inp) = {0, 2}
    /\ Len(calls[1].out) = 3

\* The per-atom scalars before the readout when no atom is filtered and the
\* model is not in dipole mode, for the atoms of the caller's system.
Unfiltered(inp) ==
    forward([model EXCEPT !.atom_filter = -1, !.derivative = FALSE], NewCall(inp)).h

\* The sum over the atoms in S of component x of their rows in f.
RECURSIVE RSumC(_, _, _)
RSumC(S, f, x) ==
    IF S = {} THEN RZero
    ELSE LET i == CHOOSE j \in S : TRUE IN RAdd(f[i][x], RSumC(S \ {i}, f, x))
RSum(S, f) == RSumC(S, f, 1)

\* C5: past the filter, z, pos and batch hold exactly the atoms with atomic
\* number above atom_filter, in the caller's order and entry by entry the
\* same atom; outside dipole mode the output row of molecule g is the sum
\* over those atoms of molecule g of the atom's scalar (the mean: divided by
\* their number), and returned forces have one row per such atom.
C5_FilterKeepsCorrespondence ==
    \A c \in Calls :
        LET L == calls[c]
            K == Kept(L.inp)
        IN  PastReadout(L) =>
            /\ Len(L.z) = Cardinality(K)
            /\ Len(L.pos) = Cardinality(K)
            /\ Len(L.batch) = Cardinality(K)
            /\ \A i \in K : /\ L.z[Rank(L.inp, i)] = L.inp.z[i]
                            /\ L.pos[Rank(L.inp, i)] = L.inp.pos[i]
                            /\ L.batch[Rank(L.inp, i)] = BatchOf(L.inp)[i]
            /\ ~model.dipole =>
                  LET U == Unfiltered(L.inp)
                  IN  \A g \in 0..(Len(L.out) - 1) :
                         LET S == {i \in K : BatchOf(L.inp)[i] = g}
                             total == RSum(S, U)
                         IN  L.out[g + 1][1] =
                                IF model.readout = "mean"
                                THEN RDiv(total, RInt(Max(Cardinality(S), 1)))
                                ELSE total
            /\ ~IsNone(L.dy) => Get(L.dy).rows = Cardinality(K)

C5_Witness ==
    /\ calls[1].pc = "returned"
    /\ model.readout = "mean" /\ model.atom_filter = 1 /\ ~model.dipole
    /\ Len(calls[1].inp.z) = 3
    /\ Kept(calls[1].inp) = {1, 3}
    /\ BatchOf(calls[1].inp) = <<1, 1, 1>>

C5_WitnessForces ==
    /\ calls[1].pc = "returned"
    /\ ~IsNone(calls[1].dy)
    /\ Kept(calls[1].inp) = {2}
    /\ Len(calls[1].inp.z) = 3

\* C7: a call whose atomic numbers are not one-dimensional or not long has
\* raised the assertion error with no operation performed, the caller's
\* positions not marked as requiring grad, and the model as constructed.
C7_BadInputFailsFirst ==
    \A c \in Calls :
        (Done(calls[c]) /\ ~ValidInput(calls[c].inp)) =>
            /\ calls[c].pc = "raised"
            /\ calls[c].error = "AssertionError"
            /\ calls[c].ops = <<>>
            /\ ~calls[c].pos_requires_grad
            /\ calls[c].h = <<>> /\ calls[c].edge_index = <<>>
            /\ model = NewModel(Get(ctor.args))

C7_Witness ==
    /\ calls[1].pc = "raised"
    /\ calls[1].inp.zdim = 2
    /\ Len(calls[1].inp.z) > 0
    /\ model.derivative

(***************************************************************************)
(* Properties of the output modes (SpecDipole).                            *)
(***************************************************************************)
\* The same call on a model constructed without readout, mean, std and atomref.
PlainArgs(a) == [a EXCEPT !.readout = "add", !.mean = None, !.std = None, !.atomref = None]
Plain(inp) == forward(NewModel(PlainArgs(Get(ctor.args))), NewCall(inp))

\* C6: in dipole mode the output and the per-atom vectors are those of the
\* model constructed without readout, mean, std and atomref, and each
\* output row is the norm of the plain sum of the molecule's vectors; outside
\* dipole mode the row of a molecule is the configured reduction of
\* h*std + mean (when both are configured) plus atomref[z] (when configured)
\* over its atoms.
C6_DipoleIgnoresReadoutAndScaling ==
    \A c \in Calls :
        calls[c].pc = "returned" =>
            LET L == calls[c]
                a == Get(ctor.args)
                P == Plain(L.inp)
                Mol(g) == {i \in 1..Len(L.batch) : L.batch[i] = g}
                scaled(i) == IF ~IsNone(a.mean) /\ ~IsNone(a.std)
                             THEN RAdd(RMul(P.h[i][1], RInt(Get(a.std))), RInt(Get(a.mean)))
                             ELSE P.h[i][1]
                atom == [i \in 1..Len(L.z) |->
                            <<IF IsNone(a.atomref) THEN scaled(i)
                              ELSE RAdd(scaled(i), RInt(Get(a.atomref)[L.z[i]]))>>]
            IN  /\ a.dipole =>
                      /\ L.out = P.out
                      /\ L.h = P.h
                      /\ \A g \in 0..(Len(L.out) - 1) :
                            L.out[g + 1][1] =
                                norm([x \in 1..3 |-> RSumC(Mol(g), L.h, x)])
                /\ ~a.dipole =>
                      \A g \in 0..(Len(L.out) - 1) :
                          L.out[g + 1][1] =
                              IF a.readout = "mean"
                              THEN RDiv(RSum(Mol(g), atom), RInt(Max(Cardinality(Mol(g)), 1)))
                              ELSE RSum(Mol(g), atom)

C6_Witness ==
    /\ calls[1].pc = "returned"
    /\ model.dipole
    /\ Get(ctor.args).readout = "mean"
    /\ ~IsNone(model.mean) /\ ~IsNone(model.std) /\ ~IsNone(model.atomref)
    /\ Len(calls[1].z) = 3
    /\ IsNone(calls[1].inp.batch)
    /\ calls[1].out[1][1].sq # RZero

(***************************************************************************)
(* Relabelling the atoms (SpecPerm).                                       *)
(***************************************************************************)
\* C8: whatever permutation the atoms of the system have been relabelled
\* by, the per-molecule output of the call equals the output of the first
\* call on the system.
C8_PermutationInvariant ==
    \A c \in Calls :
        (calls[c].pc = "returned" /\ ~IsNone(ref)) => calls[c].out = Get(ref)

C8_Witness ==
    /\ calls[1].pc = "returned"
    /\ ~IsNone(ref)
    /\ Len(calls[1].inp.z) = 3
    /\ calls[1].inp.pos = <<Line(3)[2], Line(3)[3], Line(3)[1]>>
    /\ calls[1].inp.z = <<2, 1, 2>>
    /\ calls[1].inp.batch = Some(<<0, 0, 0>>)
    /\ Len(calls[1].edge_index) = 4
    /\ Len(model.interactions) = 2

(***************************************************************************)
(* Concurrent forward calls (SpecConc).                                    *)
(***************************************************************************)
\* A finished call whose result is not stale holds exactly what forward
\* computes on its input and the model when run on its own.
C9_ResultAsIfAlone ==
    \A c \in Calls :
        (Done(calls[c]) /\ ~stale[c]) => calls[c] = forward(model, NewCall(calls[c].inp))

\* A step of a forward call in flight leaves the model as it is.
C9_StepKeepsModel ==
    (\E c \in Calls : InFlight(calls[c]) /\ calls'[c] # calls[c]) => model' = model

\* C9: no step of a forward call changes the model (parameters, buffers,
\* attributes), whatever the interleaving of the calls, and every finished
\* call whose result is not stale holds what forward computes on its input
\* when run alone; the model changes only by training or reset_parameters.
C9_ForwardNeverModifiesModel ==
    [](C9_ResultAsIfAlone) /\ [][C9_StepKeepsModel]_vars

C9_Witness ==
    /\ calls[1].pc = "returned" /\ ~stale[1]
    /\ calls[2].pc = "deriv"
    /\ calls[1].inp # calls[2].inp
    /\ ctor.last = "train"
    /\ model.derivative /\ model.dipole

====
